---- MODULE Spec2Model ----
(***************************************************************************)
(* Rocket's logging infrastructure: the LogLevel severity model            *)
(* (core/lib/src/log_utils.rs), the classic RocketLogger backend and the   *)
(* structured (tracing) backend (core/lib/src/log.rs), and the call-site   *)
(* macros (core/lib/src/log.rs, core/lib/src/tracing.rs).                  *)
(*                                                                         *)
(* Strings the code inspects character by character (targets, module       *)
(* paths, level names) are sequences of one-character strings.             *)
(***************************************************************************)
EXTENDS Integers, Sequences, FiniteSets, TLC

VARIABLES
    logger,            \* the log crate's global logger slot: "none", "rocket", "other"
    ROCKET_LOGGER_SET, \* static AtomicBool of the classic init
    max_level,         \* the log crate's global max level (a log::LevelFilter)
    paint_enabled,     \* yansi's process-wide Paint switch
    subscriber_max,    \* max level of the installed global tracing subscriber, or "unset"
    lastInit,          \* the config passed to the most recent init call
    lastRecord,        \* the record passed to the most recent log call
    lastOut,           \* the write_out! calls that log call made (classic backend)
    tr_out,            \* what the structured backend emitted in the most recent call
    pc,                \* per thread: position inside RocketLogger::log
    cur,               \* per thread: the record being logged
    pending,           \* per thread: the write_out! calls still to be made
    out,               \* the stdout stream: <<thread, write>> in write order
    input,             \* the string handed to LogLevel::from_str
    result,            \* the value from_str returned
    displayed          \* the LogLevel whose Display output is in input

vars == <<logger, ROCKET_LOGGER_SET, max_level, paint_enabled, subscriber_max,
          lastInit, lastRecord, lastOut, tr_out, pc, cur, pending, out,
          input, result, displayed>>

backendVars == <<logger, ROCKET_LOGGER_SET, max_level, paint_enabled,
                 subscriber_max, lastInit>>
seqVars == <<lastRecord, lastOut, tr_out>>
threadVars == <<pc, cur, pending, out>>
parseVars == <<input, result, displayed>>

----------------------------------------------------------------------------
(* Strings *)

StartsWith(s, p) ==
    /\ Len(p) <= Len(s)
    /\ SubSeq(s, 1, Len(p)) = p

EndsWith(s, p) ==
    /\ Len(p) <= Len(s)
    /\ SubSeq(s, Len(s) - Len(p) + 1, Len(s)) = p

Contains(s, p) ==
    \E i \in 0..(Len(s) - Len(p)) : SubSeq(s, i + 1, i + Len(p)) = p

\* u8::to_ascii_lowercase on the letters that occur in the inputs
UpperToLower ==
    [c \in {"A", "B", "C", "D", "E", "F", "G", "I", "L", "M", "N", "O", "R", "T", "U"} |->
        CASE c = "A" -> "a" [] c = "B" -> "b" [] c = "C" -> "c" [] c = "D" -> "d"
          [] c = "E" -> "e" [] c = "F" -> "f" [] c = "G" -> "g" [] c = "I" -> "i"
          [] c = "L" -> "l" [] c = "M" -> "m" [] c = "N" -> "n" [] c = "O" -> "o"
          [] c = "R" -> "r" [] c = "T" -> "t" [] c = "U" -> "u"]

\* variant: the input is matched as it is, without lower-casing
to_ascii_lowercase_skipped(s) == s

to_ascii_lowercase(s) ==
    [i \in 1..Len(s) |-> IF s[i] \in DOMAIN UpperToLower THEN UpperToLower[s[i]] ELSE s[i]]

----------------------------------------------------------------------------
(* Severity model: log_utils.rs *)

LogLevel == {"Critical", "Normal", "Debug", "Off"}

\* log::Level, most severe first; log::LevelFilter adds Off below Error
Level == {"Error", "Warn", "Info", "Debug", "Trace"}
LevelFilter == {"Off"} \cup Level

LevelOrd(l) ==
    CASE l = "Off" -> 0 [] l = "Error" -> 1 [] l = "Warn" -> 2
      [] l = "Info" -> 3 [] l = "Debug" -> 4 [] l = "Trace" -> 5

LevelFilterFrom(level) ==
    CASE level = "Critical" -> "Warn"
      [] level = "Normal" -> "Info"
      [] level = "Debug" -> "Trace"
      [] level = "Off" -> "Off"

TracingLevelFilterFrom(level) ==
    CASE level = "Critical" -> "Warn"
      [] level = "Normal" -> "Info"
      [] level = "Debug" -> "Trace"
      [] level = "Off" -> "Off"

as_str(level) ==
    CASE level = "Critical" -> <<"c", "r", "i", "t", "i", "c", "a", "l">>
      [] level = "Normal" -> <<"n", "o", "r", "m", "a", "l">>
      [] level = "Debug" -> <<"d", "e", "b", "u", "g">>
      [] level = "Off" -> <<"o", "f", "f">>

\* "a log level (off, debug, normal, critical)"
FromStrErr ==
    <<"a", " ", "l", "o", "g", " ", "l", "e", "v", "e", "l", " ", "(",
      "o", "f", "f", ",", " ", "d", "e", "b", "u", "g", ",", " ",
      "n", "o", "r", "m", "a", "l", ",", " ",
      "c", "r", "i", "t", "i", "c", "a", "l", ")">>

Ok(level) == [ok |-> TRUE, level |-> level, err |-> <<>>]
Err(msg) == [ok |-> FALSE, level |-> "none", err |-> msg]

from_str(s) ==
    LET lower == to_ascii_lowercase(s) IN
    CASE lower = <<"c", "r", "i", "t", "i", "c", "a", "l">> -> Ok("Critical")
      [] lower = <<"n", "o", "r", "m", "a", "l">> -> Ok("Normal")
      [] lower = <<"d", "e", "b", "u", "g">> -> Ok("Debug")
      [] lower = <<"o", "f", "f">> -> Ok("Off")
      [] OTHER -> Err(FromStrErr)

\* fmt::Display for LogLevel
Display(level) == as_str(level)

\* no call of from_str has returned yet
Pending == [ok |-> FALSE, level |-> "pending", err |-> <<>>]

----------------------------------------------------------------------------
(* Records: what a call site hands to the backend *)

\* Option<&str> of a character sequence, and of an opaque text
None == [some |-> FALSE, val |-> <<>>]
Some(v) == [some |-> TRUE, val |-> v]
NoText == [some |-> FALSE, val |-> ""]

LAUNCH == <<"r", "o", "c", "k", "e", "t", ":", ":", "l", "a", "u", "n", "c", "h">>
INDENT == <<":", ":", "_">>

\* define_log_macro!: the plain macro uses the target, the indented one target ++ "::_"
MacroTarget(target, indented) == IF indented THEN target \o INDENT ELSE target

Targets ==
    { MacroTarget(<<"a", "p", "p">>, FALSE),
      MacroTarget(<<"a", "p", "p">>, TRUE),
      MacroTarget(<<"a", "p", "_">>, FALSE),
      MacroTarget(LAUNCH, FALSE),
      MacroTarget(LAUNCH, TRUE) }

ModulePaths ==
    { None,
      Some(<<"a", "p", "p">>),
      Some(<<"h", "y", "p", "e", "r", ":", ":", "h", "2">>),
      Some(<<"r", "u", "s", "t", "l", "s">>),
      Some(<<"r", "2", "d", "2">>) }

Files == {NoText, Some("lib.rs")}
Lines == {NoText, Some("42")}

\* file and line only reach the output of a Debug record: records without
\* them are Debug records of the plain application macros
Records ==
    { r \in [level : Level, target : Targets, module_path : ModulePaths,
             file : Files, line : Lines, args : {"msg"}] :
        (~r.file.some \/ ~r.line.some) =>
            /\ r.level = "Debug"
            /\ r.module_path = Some(<<"a", "p", "p">>)
            /\ r.target \in {MacroTarget(<<"a", "p", "p">>, FALSE),
                             MacroTarget(<<"a", "p", "p">>, TRUE)} }

NoRecord == [level |-> "none"]

----------------------------------------------------------------------------
(* yansi::Paint and write_out! *)

\* a literal part of a format string
Lit(text) == [text |-> text, color |-> "unset", bold |-> FALSE, wrap |-> FALSE]

\* a Paint value as its Display writes it: the style is dropped while Paint is disabled
Paint(text, color, bold, wrap, on) ==
    [text |-> text,
     color |-> IF on THEN color ELSE "unset",
     bold |-> on /\ bold,
     wrap |-> on /\ wrap]

----------------------------------------------------------------------------
(* Classic backend: impl log::Log for RocketLogger *)

is_launch_record(record) == Contains(record.target, LAUNCH)

\* LevelFilter::to_level: None for Off
to_level(filter) == IF filter = "Off" THEN NoText ELSE Some(filter)

\* variant: Off lets the launch channel through
enabled_launch_at_off(record, max) ==
    IF to_level(max).some
    THEN LevelOrd(record.level) <= LevelOrd(to_level(max).val) \/ is_launch_record(record)
    ELSE is_launch_record(record)

\* variant: no exemption for the launch channel
enabled_level_only(record, max) ==
    IF to_level(max).some
    THEN LevelOrd(record.level) <= LevelOrd(to_level(max).val)
    ELSE FALSE

enabled(record, max) ==
    IF to_level(max).some
    THEN LevelOrd(record.level) <= LevelOrd(to_level(max).val) \/ is_launch_record(record)
    ELSE FALSE

from(record, path) ==
    IF record.module_path.some THEN StartsWith(record.module_path.val, path) ELSE FALSE

\* variant: r2d2 is not on the list
debug_only_without_r2d2(record) ==
    \/ from(record, <<"h", "y", "p", "e", "r">>)
    \/ from(record, <<"r", "u", "s", "t", "l", "s">>)

debug_only(record) ==
    \/ from(record, <<"h", "y", "p", "e", "r">>)
    \/ from(record, <<"r", "u", "s", "t", "l", "s">>)
    \/ from(record, <<"r", "2", "d", "2">>)

\* variant: only the suffix the macros append counts
indented_macro_suffix(record) == EndsWith(record.target, INDENT)

indented(record) == EndsWith(record.target, <<"_">>)

\* variant: no downgrade of launch records
display_level_physical(record) == record.level

\* the level the match dispatches on: a launch record is downgraded to Info
display_level(record) == IF is_launch_record(record) THEN "Info" ELSE record.level

\* the write_out! calls of the match, in order; each is one sequence of parts
level_writes(record, on) ==
    LET level == display_level(record)
        args == record.args
    IN  CASE level = "Error" /\ ~indented(record) ->
               << <<Paint("Error:", "red", TRUE, FALSE, on), Lit(" "),
                    Paint(args, "red", FALSE, TRUE, on), Lit("\n")>> >>
          [] level = "Warn" /\ ~indented(record) ->
               << <<Paint("Warning:", "yellow", TRUE, FALSE, on), Lit(" "),
                    Paint(args, "yellow", FALSE, TRUE, on), Lit("\n")>> >>
          [] level = "Info" ->
               << <<Paint(args, "blue", FALSE, TRUE, on), Lit("\n")>> >>
          [] level = "Trace" ->
               << <<Paint(args, "magenta", FALSE, TRUE, on), Lit("\n")>> >>
          [] level = "Warn" /\ indented(record) ->
               << <<Paint(args, "yellow", FALSE, TRUE, on), Lit("\n")>> >>
          [] level = "Error" /\ indented(record) ->
               << <<Paint(args, "red", FALSE, TRUE, on), Lit("\n")>> >>
          [] level = "Debug" ->
               << <<Lit("\n"), Paint("-->", "blue", TRUE, FALSE, on), Lit(" ")>> >>
               \o (IF record.file.some
                   THEN << <<Paint(record.file.val, "blue", FALSE, FALSE, on)>> >>
                   ELSE <<>>)
               \o (IF record.line.some
                   THEN << <<Lit(":"), Paint(record.line.val, "blue", FALSE, FALSE, on),
                             Lit("\n")>> >>
                   ELSE <<>>)
               \o << <<Lit("\t"), Lit(args), Lit("\n")>> >>

indent_writes(record, on) ==
    IF indented(record)
    THEN << <<Lit("   "), Paint(">>", "unset", TRUE, FALSE, on), Lit(" ")>> >>
    ELSE <<>>

\* RocketLogger::log: every write_out! call it makes for the record, in order
log_writes(record, max, on) ==
    IF ~enabled(record, max) THEN <<>>
    ELSE IF LevelOrd(LevelFilterFrom("Debug")) > LevelOrd(max) /\ debug_only(record) THEN <<>>
    ELSE indent_writes(record, on) \o level_writes(record, on)

----------------------------------------------------------------------------
(* Structured backend: the FmtSubscriber built by the tracing-logger init *)

\* with_max_level: an event passes iff its level is within the subscriber's filter
subscriber_enabled(level, filter) ==
    /\ filter # "unset"
    /\ LevelOrd(level) <= LevelOrd(filter)

subscriber_event(record, filter) ==
    IF subscriber_enabled(record.level, filter)
    THEN <<[kind |-> "event", level |-> record.level, text |-> record.args]>>
    ELSE <<>>

----------------------------------------------------------------------------
(* Initialisation: log.rs init, in the classic and in the tracing-logger build *)

Configs == [log_level : LogLevel, cli_colors : BOOLEAN]
NoInit == [log_level |-> "none", cli_colors |-> FALSE]

\* log::set_boxed_logger succeeds only while no logger is installed
set_boxed_logger_is_ok == logger = "none"

\* variant: the logger settings are applied only by the call that installs the logger
classic_init_installer_only(config, windows_ascii, is_terminal) ==
    LET set == set_boxed_logger_is_ok
        off1 == ~config.cli_colors \/ ~windows_ascii
        off2 == set /\ ~is_terminal
    IN  /\ logger' = IF set_boxed_logger_is_ok THEN "rocket" ELSE logger
        /\ ROCKET_LOGGER_SET' = (ROCKET_LOGGER_SET \/ set)
        /\ paint_enabled' = IF off1 \/ off2 THEN FALSE ELSE paint_enabled
        /\ max_level' = IF set THEN LevelFilterFrom(config.log_level) ELSE max_level

\* variant: every call sets the Paint switch from its own inputs
classic_init_paint_assigned(config, windows_ascii, is_terminal) ==
    LET set == ROCKET_LOGGER_SET \/ set_boxed_logger_is_ok
        off1 == ~config.cli_colors \/ ~windows_ascii
        off2 == set /\ ~is_terminal
    IN  /\ logger' = IF set_boxed_logger_is_ok THEN "rocket" ELSE logger
        /\ ROCKET_LOGGER_SET' = set
        /\ paint_enabled' = ~(off1 \/ off2)
        /\ max_level' = IF set THEN LevelFilterFrom(config.log_level) ELSE max_level

\* classic init; windows_ascii is Paint::enable_windows_ascii(), is_terminal is
\* stdout().is_terminal()
classic_init(config, windows_ascii, is_terminal) ==
    LET set == ROCKET_LOGGER_SET \/ set_boxed_logger_is_ok
        off1 == ~config.cli_colors \/ ~windows_ascii
        off2 == set /\ ~is_terminal
    IN  /\ logger' = IF set_boxed_logger_is_ok THEN "rocket" ELSE logger
        /\ ROCKET_LOGGER_SET' = set
        /\ paint_enabled' = IF off1 \/ off2 THEN FALSE ELSE paint_enabled
        /\ max_level' = IF set THEN LevelFilterFrom(config.log_level) ELSE max_level

\* tracing-logger init: set_global_default fails once a subscriber is installed,
\* and the failure is reported with tracing::warn! through the installed one
tracing_init(config) ==
    IF subscriber_max = "unset"
    THEN /\ subscriber_max' = TracingLevelFilterFrom(config.log_level)
         /\ tr_out' = <<>>
    ELSE /\ subscriber_max' = subscriber_max
         /\ tr_out' = IF subscriber_enabled("Warn", subscriber_max)
                      THEN <<[kind |-> "event", level |-> "Warn",
                              text |-> "Global subscriber already set"]>>
                      ELSE <<>>

\* one init(config) call, followed in both builds of the crate
init(config, windows_ascii, is_terminal) ==
    /\ classic_init(config, windows_ascii, is_terminal)
    /\ tracing_init(config)
    /\ lastInit' = config
    /\ lastRecord' = NoRecord
    /\ lastOut' = <<>>
    /\ UNCHANGED <<threadVars, parseVars>>

\* one call-site macro invocation by a single caller, followed in both builds:
\* RocketLogger::log runs to completion, the subscriber filters the event
log(record) ==
    /\ lastRecord' = record
    /\ lastOut' = log_writes(record, max_level, paint_enabled)
    /\ tr_out' = subscriber_event(record, subscriber_max)
    /\ UNCHANGED <<backendVars, threadVars, parseVars>>

Threads == {1, 2}

Init ==
    /\ logger \in {"none", "other"}
    /\ ROCKET_LOGGER_SET = FALSE
    /\ max_level = "Off"
    /\ paint_enabled = TRUE
    /\ subscriber_max = "unset"
    /\ lastInit = NoInit
    /\ lastRecord = NoRecord
    /\ lastOut = <<>>
    /\ tr_out = <<>>
    /\ pc = [t \in Threads |-> "idle"]
    /\ cur = [t \in Threads |-> NoRecord]
    /\ pending = [t \in Threads |-> <<>>]
    /\ out = <<>>
    /\ input = <<>>
    /\ result = Pending
    /\ displayed = "none"

Next ==
    \/ \E config \in Configs, windows_ascii \in BOOLEAN, is_terminal \in BOOLEAN :
          init(config, windows_ascii, is_terminal)
    \/ \E record \in Records : log(record)

Spec == Init /\ [][Next]_vars

----------------------------------------------------------------------------
(* Concurrent callers of RocketLogger::log: one step per write_out! call *)

ConcRecords ==
    { r \in Records :
        /\ r.level \in {"Error", "Info", "Debug"}
        /\ r.target \in {MacroTarget(<<"a", "p", "p">>, FALSE),
                         MacroTarget(<<"a", "p", "p">>, TRUE)}
        /\ r.module_path = Some(<<"a", "p", "p">>)
        /\ r.file.some /\ r.line.some }

\* lines 95-110: the filter; a record that passes goes on to its writes
log_enter(t, record) ==
    /\ pc[t] = "idle"
    /\ cur' = [cur EXCEPT ![t] = record]
    /\ pending' = [pending EXCEPT ![t] = log_writes(record, max_level, paint_enabled)]
    /\ pc' = [pc EXCEPT ![t] = IF pending'[t] = <<>> THEN "done" ELSE "writing"]
    /\ UNCHANGED <<out, backendVars, seqVars, parseVars>>

\* one write_out! call: print! holds the stdout lock for this one call only
write_out(t) ==
    /\ pc[t] = "writing"
    /\ out' = Append(out, [thread |-> t, write |-> Head(pending[t])])
    /\ pending' = [pending EXCEPT ![t] = Tail(pending[t])]
    /\ pc' = [pc EXCEPT ![t] = IF pending'[t] = <<>> THEN "done" ELSE "writing"]
    /\ UNCHANGED <<cur, backendVars, seqVars, parseVars>>

NextConc ==
    \/ \E config \in Configs, windows_ascii \in BOOLEAN, is_terminal \in BOOLEAN :
          /\ lastInit = NoInit
          /\ \A t \in Threads : pc[t] = "idle"
          /\ init(config, windows_ascii, is_terminal)
    \/ \E t \in Threads, record \in ConcRecords : log_enter(t, record)
    \/ \E t \in Threads : write_out(t)

SpecConc == Init /\ [][NextConc]_vars

----------------------------------------------------------------------------
(* LogLevel parsing and display on their own *)

Words == {as_str(level) : level \in LogLevel}

\* every way of upper-casing some letters of a word
CaseVariants(word) ==
    { [i \in 1..Len(word) |->
          IF up[i] THEN CHOOSE c \in DOMAIN UpperToLower : UpperToLower[c] = word[i]
          ELSE word[i]] : up \in [1..Len(word) -> BOOLEAN] }

OtherInputs ==
    { <<>>, <<"o", "f">>, <<"o", "f", "f", "f">>, <<" ", "o", "f", "f">>,
      <<"O", "F", "F", " ">>, <<"0", "f", "f">>, <<"n", "o", "n", "e">>,
      <<"w", "a", "r", "n">>, <<"i", "n", "f", "o">>, <<"t", "r", "a", "c", "e">>,
      <<"e", "r", "r", "o", "r">>, <<"d", "e", "b", "u", "g", "g">>,
      <<"c", "r", "i", "t", "i", "c", "a", "1">>, <<"N", "o", "r", "m", "a">> }

ParseInputs == UNION {CaseVariants(word) : word \in Words} \cup OtherInputs

InitParse ==
    /\ logger = "none"
    /\ ROCKET_LOGGER_SET = FALSE
    /\ max_level = "Off"
    /\ paint_enabled = TRUE
    /\ subscriber_max = "unset"
    /\ lastInit = NoInit
    /\ lastRecord = NoRecord
    /\ lastOut = <<>>
    /\ tr_out = <<>>
    /\ pc = [t \in Threads |-> "idle"]
    /\ cur = [t \in Threads |-> NoRecord]
    /\ pending = [t \in Threads |-> <<>>]
    /\ out = <<>>
    /\ input \in ParseInputs
    /\ result = Pending
    /\ displayed = "none"

\* s.parse::<LogLevel>() of the string at hand
parse ==
    /\ result = Pending
    /\ result' = from_str(input)
    /\ UNCHANGED <<input, displayed, backendVars, seqVars, threadVars>>

\* level.to_string(): the text becomes the next string to parse
display(level) ==
    /\ input' = Display(level)
    /\ displayed' = level
    /\ result' = Pending
    /\ UNCHANGED <<backendVars, seqVars, threadVars>>

NextParse ==
    \/ parse
    \/ \E level \in LogLevel : display(level)

SpecParse == InitParse /\ [][NextParse]_vars

----------------------------------------------------------------------------
(* Vocabulary of the properties *)

\* the most recent init call made Rocket's logger use this LogLevel
ActiveLevel(level) == ROCKET_LOGGER_SET /\ lastInit.log_level = level

Logged == lastRecord # NoRecord
Shown == lastOut # <<>>

OnLaunchChannel(record) == Contains(record.target, LAUNCH)

NoisyPrefixes ==
    { <<"h", "y", "p", "e", "r">>, <<"r", "u", "s", "t", "l", "s">>, <<"r", "2", "d", "2">> }

NoisyPath(record) ==
    /\ record.module_path.some
    /\ \E p \in NoisyPrefixes : StartsWith(record.module_path.val, p)

WithinBound(level, severity) ==
    CASE level = "Critical" -> severity \in {"Error", "Warn"}
      [] level = "Normal" -> severity \in {"Error", "Warn", "Info"}
      [] level = "Debug" -> severity \in {"Error", "Warn", "Info", "Debug", "Trace"}
      [] level = "Off" -> FALSE

\* the output starts with three spaces, the ">>" marker and a space
HasMarker(writes) ==
    /\ writes # <<>>
    /\ Len(writes[1]) = 3
    /\ writes[1][1].text = "   "
    /\ writes[1][2].text = ">>"
    /\ writes[1][3].text = " "

HasText(writes, text) ==
    \E i \in DOMAIN writes : \E j \in DOMAIN writes[i] : writes[i][j].text = text

HasPrefix(writes) == HasText(writes, "Error:") \/ HasText(writes, "Warning:")

----------------------------------------------------------------------------
(* C1: a later init call leaves the threshold at the first call's value *)

\* C1 as stated: once Rocket's logger is set, no call changes the global max
\* level, whatever log_level the later config carries.
C1_ThresholdKeptAfterFirstInit ==
    [][ROCKET_LOGGER_SET => max_level' = max_level]_vars

\* C1 amended: while Rocket's logger is set the global max level is the filter
\* of the most recent init call's log_level (every call re-applies it); while
\* it is not set (another logger was installed first) the max level is never
\* touched.
C1_ThresholdFollowsLatestInit ==
    /\ ROCKET_LOGGER_SET => max_level = LevelFilterFrom(lastInit.log_level)
    /\ ~ROCKET_LOGGER_SET => max_level = "Off"

\* a later init call carried another log_level than the first one (the
\* subscriber keeps the first call's level) and the threshold followed it
C1_LaterInitMovedThreshold ==
    /\ ROCKET_LOGGER_SET
    /\ subscriber_max # "unset"
    /\ subscriber_max = "Info"
    /\ lastInit.log_level = "Debug"
    /\ max_level = "Trace"

----------------------------------------------------------------------------
(* C2: active level Off *)

\* C2 as stated: with active level Off an event is shown exactly when its
\* target contains the launch-channel marker.
C2_OffShowsOnlyLaunch ==
    (Logged /\ ActiveLevel("Off")) => (Shown <=> OnLaunchChannel(lastRecord))

\* C2 amended: with active level Off every event is suppressed, whatever its
\* severity, launch-channel events included.
C2_OffShowsNothing ==
    (Logged /\ ActiveLevel("Off")) => ~Shown

\* a launch_info! record (Warn on the launch channel) was logged at Off and
\* nothing was written
C2_LaunchSuppressedAtOff ==
    /\ Logged /\ ActiveLevel("Off")
    /\ lastRecord.level = "Warn"
    /\ OnLaunchChannel(lastRecord)
    /\ ~Shown

----------------------------------------------------------------------------
(* C3: the level bound and the launch exemption *)

\* C3: at Critical, Normal or Debug an event whose module path is not under a
\* noisy prefix is shown iff its severity is within the level's bound or its
\* target contains the launch-channel marker.
C3_ShownIffWithinBoundOrLaunch ==
    \A level \in {"Critical", "Normal", "Debug"} :
        (Logged /\ ActiveLevel(level) /\ ~NoisyPath(lastRecord)) =>
            (Shown <=> (WithinBound(level, lastRecord.level)
                        \/ OnLaunchChannel(lastRecord)))

\* a launch_meta! record (Info on the launch channel) was shown at Critical
C3_LaunchInfoShownAtCritical ==
    /\ Logged /\ ActiveLevel("Critical")
    /\ ~NoisyPath(lastRecord)
    /\ lastRecord.level = "Info"
    /\ OnLaunchChannel(lastRecord)
    /\ Shown

----------------------------------------------------------------------------
(* C4: noisy third-party modules *)

\* C4: an event from a module path under hyper, rustls or r2d2 is suppressed at
\* Normal and Critical whatever its severity and channel, and shown at Debug;
\* an event without module path is shown exactly when the level check of
\* enabled passes.
C4_NoisyModulesOnlyAtDebug ==
    Logged =>
        /\ (NoisyPath(lastRecord) /\ (ActiveLevel("Normal") \/ ActiveLevel("Critical")))
              => ~Shown
        /\ (NoisyPath(lastRecord) /\ ActiveLevel("Debug")) => Shown
        /\ ~lastRecord.module_path.some =>
              \A level \in {"Critical", "Normal", "Debug"} :
                  ActiveLevel(level) =>
                      (Shown <=> (WithinBound(level, lastRecord.level)
                                  \/ OnLaunchChannel(lastRecord)))

\* an Error from r2d2 on the launch channel was suppressed at Normal
C4_NoisyLaunchErrorSuppressed ==
    /\ Logged /\ ActiveLevel("Normal")
    /\ lastRecord.module_path = Some(<<"r", "2", "d", "2">>)
    /\ lastRecord.level = "Error"
    /\ OnLaunchChannel(lastRecord)
    /\ ~Shown

----------------------------------------------------------------------------
(* C5: the two backends decide alike *)

\* C5: when both backends were initialised with the same log_level, an event
\* is shown by the classic backend iff the structured backend emits it.
C5_BackendsDecideAlike ==
    (/\ Logged
     /\ ROCKET_LOGGER_SET
     /\ subscriber_max = TracingLevelFilterFrom(lastInit.log_level))
        => (Shown <=> tr_out # <<>>)

----------------------------------------------------------------------------
(* C6: concurrent callers *)

\* C6: in the output stream the writes of one log call are contiguous: no
\* write of another thread's call lies between two of them.
C6_WritesOfOneCallContiguous ==
    \A i, j, k \in DOMAIN out :
        (i < j /\ j < k /\ out[i].thread = out[k].thread) => out[j].thread = out[i].thread

----------------------------------------------------------------------------
(* C7: LogLevel parse and display *)

FourWords ==
    [Critical |-> <<"c", "r", "i", "t", "i", "c", "a", "l">>,
     Normal |-> <<"n", "o", "r", "m", "a", "l">>,
     Debug |-> <<"d", "e", "b", "u", "g">>,
     Off |-> <<"o", "f", "f">>]

\* the comma-separated items of a list text
RECURSIVE Items(_)
Items(text) ==
    IF \E i \in 1..(Len(text) - 1) : text[i] = "," /\ text[i + 1] = " "
    THEN LET i == CHOOSE n \in 1..(Len(text) - 1) :
                      /\ text[n] = "," /\ text[n + 1] = " "
                      /\ \A m \in 1..(n - 1) : ~(text[m] = "," /\ text[m + 1] = " ")
         IN  {SubSeq(text, 1, i - 1)} \cup Items(SubSeq(text, i + 2, Len(text)))
    ELSE {text}

\* the words an error message lists between its parentheses
NamedWords(msg) ==
    IF \E i, j \in DOMAIN msg : i < j /\ msg[i] = "(" /\ msg[j] = ")"
    THEN LET i == CHOOSE n \in DOMAIN msg : msg[n] = "("
             j == CHOOSE n \in DOMAIN msg : msg[n] = ")"
         IN  Items(SubSeq(msg, i + 1, j - 1))
    ELSE {}

\* C7: parsing what display wrote gives the level back; every upper/lower-case
\* variant of one of the four words parses to its level; every other string is
\* rejected with a message that lists exactly the four words.
C7_ParseDisplay ==
    result # Pending =>
        /\ displayed # "none" => result = Ok(displayed)
        /\ \A level \in LogLevel :
              input \in CaseVariants(FourWords[level]) => result = Ok(level)
        /\ (\A level \in LogLevel : input \notin CaseVariants(FourWords[level])) =>
              /\ ~result.ok
              /\ NamedWords(result.err) = {FourWords[level] : level \in LogLevel}

\* "critical" written by display was parsed back
C7_CriticalRoundTrip ==
    /\ displayed = "Critical"
    /\ input = FourWords["Critical"]
    /\ result = Ok("Critical")

\* a mixed-case variant was parsed
C7_MixedCaseParsed ==
    /\ input = <<"d", "E", "b", "U", "g">>
    /\ result = Ok("Debug")

----------------------------------------------------------------------------
(* C8: indentation *)

\* C8 as stated: a shown event carries the marker iff its target ends with the
\* "::_" the macros append; an indented Error/Warn has no "Error:"/"Warning:"
\* prefix, a non-indented Error/Warn has it.
C8_IndentedIffMacroSuffix ==
    Shown =>
        LET ind == EndsWith(lastRecord.target, INDENT) IN
        /\ HasMarker(lastOut) <=> ind
        /\ lastRecord.level \in {"Error", "Warn"} => (HasPrefix(lastOut) <=> ~ind)

\* C8 amended: a shown event carries the marker iff its target ends with the
\* character "_" (the macros' "::_" is one such ending); an Error/Warn event
\* has the "Error:"/"Warning:" prefix iff it is neither indented nor on the
\* launch channel.
C8_IndentedIffUnderscore ==
    Shown =>
        LET ind == EndsWith(lastRecord.target, <<"_">>) IN
        /\ HasMarker(lastOut) <=> ind
        /\ lastRecord.level = "Error" =>
              (HasText(lastOut, "Error:") <=> (~ind /\ ~OnLaunchChannel(lastRecord)))
        /\ lastRecord.level = "Warn" =>
              (HasText(lastOut, "Warning:") <=> (~ind /\ ~OnLaunchChannel(lastRecord)))
        /\ lastRecord.level \notin {"Error", "Warn"} => ~HasPrefix(lastOut)

\* an Error whose target ends in "_" but not in "::_" was rendered indented
C8_UnderscoreTargetIndented ==
    /\ Shown
    /\ lastRecord.level = "Error"
    /\ lastRecord.target = <<"a", "p", "_">>
    /\ HasMarker(lastOut)
    /\ ~HasPrefix(lastOut)

----------------------------------------------------------------------------
(* C9: launch records are displayed as Info *)

\* the writes after the indentation marker, if there is one
AfterMarker(writes) == IF HasMarker(writes) THEN Tail(writes) ELSE writes

\* C9: a shown launch-channel event is written as the one Info line (the
\* message, blue while Paint is enabled, then a newline), without prefix and
\* without Debug block, whatever its severity; the severity handed to the
\* structured sink is the record's own.
C9_LaunchRenderedAsInfo ==
    (Shown /\ OnLaunchChannel(lastRecord)) =>
        /\ AfterMarker(lastOut) =
              << << [text |-> lastRecord.args,
                     color |-> IF paint_enabled THEN "blue" ELSE "unset",
                     bold |-> FALSE, wrap |-> paint_enabled],
                    Lit("\n") >> >>
        /\ ~HasPrefix(lastOut)
        /\ ~HasText(lastOut, "-->")
        /\ tr_out # <<>> => tr_out[1].level = lastRecord.level

\* a launch_info! record (Warn, target "rocket::launch") was shown in blue
C9_LaunchWarnShown ==
    /\ Shown
    /\ lastRecord.level = "Warn"
    /\ lastRecord.target = LAUNCH
    /\ paint_enabled
    /\ tr_out # <<>>

----------------------------------------------------------------------------
(* C10: the Paint switch *)

\* C10 as stated: after the first init call no call changes the Paint switch.
C10_PaintFixedAfterFirstInit ==
    [][lastInit # NoInit => paint_enabled' = paint_enabled]_vars

\* C10 amended: the switch is only ever turned off: no call turns it back on,
\* every init call whose config has cli_colors = false (the first or a later
\* one) leaves it off, and log calls leave it alone.
C10_PaintOnlyTurnedOff ==
    [][/\ ~paint_enabled => ~paint_enabled'
       /\ (lastRecord' = NoRecord /\ ~lastInit'.cli_colors) => ~paint_enabled'
       /\ lastRecord' # NoRecord => paint_enabled' = paint_enabled]_vars

\* a later init call (it found the subscriber already set) ran with
\* cli_colors = false and the switch is off
C10_LaterInitTurnedPaintOff ==
    /\ lastRecord = NoRecord
    /\ tr_out # <<>>
    /\ ~lastInit.cli_colors
    /\ ~paint_enabled

====
